---- MODULE Spec2Model ----
(***************************************************************************)
(* A model of src/app.py, the Streamlit personal finance tracker.          *)
(*                                                                         *)
(* Every user interaction re-runs the whole script: load_data() at line    *)
(* 144, then exactly one of the three sections chosen in the sidebar.  One *)
(* action of the model is one such run.  The durable storage is the file   *)
(* finanze.json; the in-memory table is the DataFrame df.                  *)
(*                                                                         *)
(* Amounts are integers (units of the smallest amount entered); the        *)
(* floating point rounding of pandas' sums is not modelled.                *)
(*                                                                         *)
(* Not modelled: the drawing of widgets, charts and of the PDF page, the   *)
(* sorted "Storico" table and the CSV export, which read df and change     *)
(* nothing; the helper columns MeseAnno/AnnoMese the sections add to df    *)
(* in memory (they are recomputed by every run and never saved).           *)
(***************************************************************************)
EXTENDS Integers, Sequences, FiniteSets, TLC

VARIABLES
    storage,   \* the content of DATA_FILE
    df,        \* the DataFrame held by the last run of the script
    sezione,   \* the section the last run rendered
    esito,     \* what the last run showed: a message kind or an exception
    form,      \* the inputs of the last press of "Aggiungi operazione"
    vista      \* the values the last run computed for display

vars == <<storage, df, sezione, esito, form, vista>>

\* The largest number of rows of the table the model explores.
MaxRows == 2

(***************************************************************************)
(* CONFIG (lines 15-25)                                                    *)
(***************************************************************************)
PORTAFOGLI == <<"Isybank", "Postepay", "Paypal", "Contanti">>

CATEGORIE ==
    << "Stipendio", "Bonus", "Regali o entrate occasionali",
       "Affitto", "Canone di Amministrazione", "Bollette",
       "Mutuo", "Debito", "Assicurazioni",
       "Spesa alimentare", "Trasporti", "Tempo libero",
       "Abbigliamento", "Cura personale",
       "Salute", "Educazione / Formazione", "Investimenti",
       "Varie ed eventuali" >>

\* The keys of a groupby("Categoria") come out sorted: CATEGORIE in the
\* lexicographic order of Python strings.
CategorieOrdinate ==
    << "Abbigliamento", "Affitto", "Assicurazioni", "Bollette", "Bonus",
       "Canone di Amministrazione", "Cura personale", "Debito",
       "Educazione / Formazione", "Investimenti", "Mutuo",
       "Regali o entrate occasionali", "Salute", "Spesa alimentare",
       "Stipendio", "Tempo libero", "Trasporti", "Varie ed eventuali" >>

Range(s) == {s[i] : i \in DOMAIN s}

(***************************************************************************)
(* Values                                                                  *)
(***************************************************************************)
\* A pandas Timestamp at midnight, and NaT.
Ts(a, m, g) == [anno |-> a, mese |-> m, giorno |-> g]
NaT == Ts(0, 0, 0)

\* Chronological order of Timestamps.
Ord(ts) == ts.anno * 372 + ts.mese * 31 + ts.giorno

\* .dt.to_period('M').dt.to_timestamp(): the first day of the month; NaT
\* stays NaT.
AnnoMese(ts) == IF ts = NaT THEN NaT ELSE Ts(ts.anno, ts.mese, 1)

\* The == of pandas on Timestamps: NaT equals nothing, itself included.
Uguali(a, b) == a # NaT /\ b # NaT /\ a = b

\* What the "Data" field of a stored record can hold: an ISO-8601 string,
\* a string that is no date, or null.
Iso(ts) == [k |-> "iso", ts |-> ts]
NonData == [k |-> "invalid", ts |-> NaT]
Null == [k |-> "null", ts |-> NaT]

\* to_json(date_format="iso") of one Data cell: NaT is written as null.
date_format_iso(ts) == IF ts = NaT THEN Null ELSE Iso(ts)

\* pd.to_datetime(errors="coerce") of one Data cell: what does not parse
\* becomes NaT.
to_datetime(v) == IF v.k = "iso" THEN v.ts ELSE NaT

\* A Descrizione cell: a string, or a number (after read_json's type
\* inference).
Str(s) == [t |-> "str", v |-> s]
Num(s) == [t |-> "num", v |-> s]

\* float(s) for the strings of the model: the decimal it denotes, or ""
\* where Python raises ValueError.
FloatText(s) == CASE s = "007" -> "7" [] OTHER -> ""

Castable(d) == d.t = "num" \/ FloatText(d.v) # ""

AsNumber(d) == IF d.t = "num" THEN d ELSE Num(FloatText(d.v))

\* pd.read_json with its default dtype=True: a column of strings that all
\* convert to float64 is returned as numbers.  Among the columns the program
\* writes, only Descrizione holds free text.
read_json(rows) ==
    IF \A i \in DOMAIN rows : Castable(rows[i].Descrizione)
    THEN [i \in DOMAIN rows |->
            [rows[i] EXCEPT !.Descrizione = AsNumber(rows[i].Descrizione)]]
    ELSE rows

(***************************************************************************)
(* FUNZIONI: load_data, save_data (lines 33-42)                            *)
(***************************************************************************)
Assente == [kind |-> "absent", rows |-> <<>>]
Illeggibile == [kind |-> "malformed", rows |-> <<>>]
Records(rows) == [kind |-> "records", rows |-> rows]

\* The empty DataFrame with the six columns (line 39).
DataFrameVuoto == <<>>

\* A file that is a JSON array without records ("[]") parses to a frame
\* without columns, and df["Data"] raises KeyError, which the except clause
\* of line 38 does not name.
load_data(st) ==
    CASE st.kind = "absent" -> [err |-> "none", df |-> DataFrameVuoto]
      [] st.kind = "malformed" -> [err |-> "none", df |-> DataFrameVuoto]
      [] OTHER ->
            IF st.rows = <<>>
            THEN [err |-> "KeyError", df |-> DataFrameVuoto]
            ELSE LET letto == read_json(st.rows)
                 IN [err |-> "none",
                     df |-> [i \in DOMAIN letto |->
                               [letto[i] EXCEPT !.Data = to_datetime(letto[i].Data)]]]

save_data(tab) ==
    Records([i \in DOMAIN tab |->
               [tab[i] EXCEPT !.Data = date_format_iso(tab[i].Data)]])

(***************************************************************************)
(* Helpers for the pandas expressions                                      *)
(***************************************************************************)
\* Series.sum() of the Importo column; 0 for no rows.
RECURSIVE Somma(_)
Somma(rows) ==
    IF rows = <<>> THEN 0 ELSE Head(rows).Importo + Somma(Tail(rows))

Entrate(rows) == SelectSeq(rows, LAMBDA r : r.Tipo = "Entrata")
Uscite(rows) == SelectSeq(rows, LAMBDA r : r.Tipo = "Uscita")

\* sorted(S) for a set of Timestamps, as a sequence.
RECURSIVE Ordinati(_)
Ordinati(S) ==
    IF S = {} THEN <<>>
    ELSE LET m == CHOOSE x \in S : \A y \in S : Ord(x) <= Ord(y)
         IN <<m>> \o Ordinati(S \ {m})

\* The AnnoMese keys of a groupby: NaT keys are dropped (dropna=True), the
\* rest come out in chronological order.
ChiaviMese(tab) ==
    Ordinati({AnnoMese(tab[i].Data) : i \in DOMAIN tab} \ {NaT})

DelMese(rows, m) == SelectSeq(rows, LAMBDA r : Uguali(AnnoMese(r.Data), m))

(***************************************************************************)
(* DASHBOARD (lines 154-172)                                               *)
(***************************************************************************)
totale_entrate(tab) == Somma(Entrate(tab))
totale_uscite(tab) == Somma(Uscite(tab))
risparmio_totale(tab) == totale_entrate(tab) - totale_uscite(tab)

\* df[df["MeseAnno"] == mese_corrente]: the rows of the current month.
risparmio_mese_attuale(tab, ora) ==
    LET df_mese == DelMese(tab, AnnoMese(ora))
    IN Somma(Entrate(df_mese)) - Somma(Uscite(df_mese))

(***************************************************************************)
(* ANALISI (lines 222-276)                                                 *)
(***************************************************************************)
\* Series.cumsum() of the Risparmio column.
RECURSIVE CumRisparmio(_, _)
CumRisparmio(righe, acc) ==
    IF righe = <<>> THEN <<>>
    ELSE LET c == acc + Head(righe).Risparmio
         IN <<[Head(righe) EXCEPT !.RisparmioCumulativo = c]>>
              \o CumRisparmio(Tail(righe), c)

\* mensile (lines 227-233): one row per month, Entrata and Uscita summed
\* (0 where a kind is missing), Risparmio and its running sum.
mensile(tab) ==
    LET chiavi == ChiaviMese(tab)
        riga(m) ==
            LET e == Somma(Entrate(DelMese(tab, m)))
                u == Somma(Uscite(DelMese(tab, m)))
            IN [AnnoMese |-> m, Entrata |-> e, Uscita |-> u,
                Risparmio |-> e - u, RisparmioCumulativo |-> 0]
    IN CumRisparmio([i \in DOMAIN chiavi |-> riga(chiavi[i])], 0)

\* DataFrame.cumsum() of the wallet columns.
RECURSIVE CumPortafogli(_, _)
CumPortafogli(righe, acc) ==
    IF righe = <<>> THEN <<>>
    ELSE LET c == [p \in Range(PORTAFOGLI) |-> acc[p] + Head(righe).saldo[p]]
         IN <<[AnnoMese |-> Head(righe).AnnoMese, saldo |-> c]>>
              \o CumPortafogli(Tail(righe), c)

\* portafogli_mensili (lines 241-245): Importo summed per month and wallet,
\* whatever the Tipo, then the running sum of each wallet column.
portafogli_mensili(tab) ==
    LET chiavi == ChiaviMese(tab)
        riga(m) ==
            [AnnoMese |-> m,
             saldo |-> [p \in Range(PORTAFOGLI) |->
                          Somma(SelectSeq(DelMese(tab, m),
                                          LAMBDA r : r.Portafoglio = p))]]
    IN CumPortafogli([i \in DOMAIN chiavi |-> riga(chiavi[i])],
                     [p \in Range(PORTAFOGLI) |-> 0])

\* sorted(df["AnnoMese"].unique()): the options of the month selectbox.
mesi_disponibili(tab) == {AnnoMese(tab[i].Data) : i \in DOMAIN tab}

\* df[(df["Tipo"]=="Uscita") & (df["AnnoMese"]==month)] (lines 94-95, 254).
spese_mese(tab, m) ==
    SelectSeq(tab, LAMBDA r : r.Tipo = "Uscita" /\ Uguali(AnnoMese(r.Data), m))

\* groupby("Categoria")["Importo"].sum(): one entry per category present,
\* in the order of the sorted keys.
groupby_categoria(rows) ==
    LET presenti == SelectSeq(CategorieOrdinate,
                              LAMBDA c : \E i \in DOMAIN rows : rows[i].Categoria = c)
    IN [i \in DOMAIN presenti |->
          [Categoria |-> presenti[i],
           Importo |-> Somma(SelectSeq(rows, LAMBDA r : r.Categoria = presenti[i]))]]

\* Insertion of one entry into a sequence kept in descending order, after
\* the entries of the same amount.
RECURSIVE Inserisci(_, _)
Inserisci(e, s) ==
    IF s = <<>> THEN <<e>>
    ELSE IF Head(s).Importo >= e.Importo
         THEN <<Head(s)>> \o Inserisci(e, Tail(s))
         ELSE <<e>> \o s

RECURSIVE InserisciCrescente(_, _)
InserisciCrescente(e, s) ==
    IF s = <<>> THEN <<e>>
    ELSE IF Head(s).Importo <= e.Importo
         THEN <<Head(s)>> \o InserisciCrescente(e, Tail(s))
         ELSE <<e>> \o s

RECURSIVE sort_values_crescente(_)
sort_values_crescente(s) ==
    IF s = <<>> THEN <<>>
    ELSE InserisciCrescente(s[Len(s)], sort_values_crescente(SubSeq(s, 1, Len(s) - 1)))

\* Series.sort_values(ascending=False): descending, equal amounts keep the
\* order they had.
RECURSIVE sort_values(_)
sort_values(s) ==
    IF s = <<>> THEN <<>>
    ELSE Inserisci(s[Len(s)], sort_values(SubSeq(s, 1, Len(s) - 1)))

\* spese_categoria (lines 96-97, 255-256); not computed, here the empty
\* sequence, when the month has no expense.
spese_categoria(tab, m) ==
    LET righe == spese_mese(tab, m)
    IN IF righe = <<>> THEN <<>> ELSE sort_values(groupby_categoria(righe))

\* entrate_stipendio (lines 110-114, 263).
entrate_stipendio(tab, m) ==
    Somma(SelectSeq(tab, LAMBDA r : /\ r.Tipo = "Entrata"
                                    /\ r.Categoria = "Stipendio"
                                    /\ Uguali(AnnoMese(r.Data), m)))

\* spese_totali_mese (line 264).
spese_totali_mese(tab, m) == Somma(spese_mese(tab, m))

Max(a, b) == IF a >= b THEN a ELSE b

rimanente_senza_max(stipendio, spese) == stipendio - spese

\* rimanente (lines 116, 266).
rimanente(stipendio, spese) == Max(stipendio - spese, 0)

\* The "Stipendio vs Spese" pie (lines 115-128, 265-276): drawn only when
\* the month has salary income.
StipendioVsSpese(stipendio, spese) ==
    IF stipendio > 0
    THEN [presente |-> TRUE, stipendio |-> stipendio, spese |-> spese,
          rimanente |-> rimanente(stipendio, spese)]
    ELSE [presente |-> FALSE, stipendio |-> stipendio, spese |-> spese,
          rimanente |-> 0]

(***************************************************************************)
(* genera_report_pdf (lines 47-139)                                        *)
(***************************************************************************)
df_mese_solo_mese(tab, mese, anno) ==
    SelectSeq(tab, LAMBDA r : r.Data.mese = mese)

\* df[(df['Data'].dt.year == anno) & (df['Data'].dt.month == mese)]
df_mese_di(tab, mese, anno) ==
    SelectSeq(tab, LAMBDA r : r.Data.anno = anno /\ r.Data.mese = mese)

Nessuno == [doc |-> FALSE]

\* None when the month has no row; otherwise the buffer, here the values
\* drawn on the page.  The .dt accessor of line 48 needs a datetime column:
\* the empty frame of line 39 has object columns and raises AttributeError.
genera_report_pdf(tab, mese, anno) ==
    IF tab = DataFrameVuoto THEN [doc |-> FALSE, err |-> "AttributeError"]
    ELSE
    LET del_mese == df_mese_di(tab, mese, anno)
        uscite == Somma(Uscite(del_mese))
        entrate == Somma(Entrate(del_mese))
        primo == Ts(anno, mese, 1)
    IN IF del_mese = <<>> THEN Nessuno
       ELSE [doc |-> TRUE,
             saldi |-> [p \in Range(PORTAFOGLI) |->
                          Somma(Entrate(SelectSeq(del_mese, LAMBDA r : r.Portafoglio = p)))
                          - Somma(Uscite(SelectSeq(del_mese, LAMBDA r : r.Portafoglio = p)))],
             totale_entrate |-> entrate,
             totale_spese |-> uscite,
             risparmio_mese |-> entrate - uscite,
             spese_categoria |-> spese_categoria(tab, primo),
             torta2 |-> StipendioVsSpese(entrate_stipendio(tab, primo), uscite)]

(***************************************************************************)
(* The inputs the model draws from                                         *)
(***************************************************************************)
Riga(d, p, t, c, s, x) ==
    [Data |-> d, Portafoglio |-> p, Tipo |-> t, Categoria |-> c,
     Descrizione |-> s, Importo |-> x]

SeqsUpTo(S, n) == UNION {[1..k -> S] : k \in 0..n}

Tipi == {"Entrata", "Uscita"}

\* datetime.now() of a run.
Ore == {Ts(2024, 1, 20), Ts(2025, 1, 20)}

\* The widgets of the Transazioni form.
DateForm == {Ts(2024, 1, 5), Ts(2024, 2, 1), Ts(2025, 1, 10)}
DescrizioniForm == {"", "spesa", "007"}
ImportiForm == {0, 1}
PortafogliForm == {"Isybank"}
CategorieForm == {"Stipendio"}

\* The records a file found at start-up may hold.
RigheFile ==
    {Riga(d, p, t, c, Str(s), x) :
        d \in {Iso(g) : g \in DateForm} \cup {NonData},
        p \in PortafogliForm, t \in Tipi, c \in CategorieForm,
        s \in {"spesa"}, x \in ImportiForm \ {0}}

\* Tables for the wallet series: two wallets, two amounts.
RighePortafogli ==
    {Riga(d, p, t, "Stipendio", Str("spesa"), x) :
        d \in {Iso(Ts(2024, 2, 1)), Iso(Ts(2025, 1, 10)), NonData},
        p \in {"Isybank", "Postepay"}, t \in Tipi, x \in {1, 2}}

\* Tables for the category views: three categories, two amounts.
RigheCategorie ==
    {Riga(d, "Isybank", t, c, Str("spesa"), x) :
        d \in {Iso(Ts(2024, 2, 1)), Iso(Ts(2025, 1, 10)), NonData},
        t \in Tipi, c \in {"Stipendio", "Affitto", "Bollette"}, x \in {1, 2}}

(***************************************************************************)
(* One run of the script                                                   *)
(***************************************************************************)
NessunForm == [premuto |-> FALSE, descrizione |-> "", importo |-> 0]
VistaVuota == [tipo |-> "nessuna"]

\* load_data raised at line 144: the run ends with the exception shown.
Interrotta(nome, err) ==
    /\ df' = DataFrameVuoto
    /\ sezione' = nome
    /\ esito' = err
    /\ form' = NessunForm
    /\ vista' = VistaVuota
    /\ UNCHANGED storage

\* Lines 154-172.
RunDashboard ==
    \E ora \in Ore :
        LET r == load_data(storage)
        IN IF r.err # "none" THEN Interrotta("Dashboard", r.err)
           ELSE /\ df' = r.df
                /\ sezione' = "Dashboard"
                /\ form' = NessunForm
                /\ UNCHANGED storage
                /\ IF r.df = DataFrameVuoto
                   THEN esito' = "info" /\ vista' = VistaVuota
                   ELSE /\ esito' = "ok"
                        /\ vista' = [tipo |-> "Dashboard",
                                     totale_entrate |-> totale_entrate(r.df),
                                     risparmio_totale |-> risparmio_totale(r.df),
                                     risparmio_mese |-> risparmio_mese_attuale(r.df, ora)]

ValidoNonNegativo(descrizione, importo) == descrizione # "" /\ importo >= 0

\* `if descrizione and importo > 0` (line 197).
Valido(descrizione, importo) == descrizione # "" /\ importo > 0

\* Lines 177-217: the form, and the handler of the button when pressed.
\* The selectboxes and the date are read only by an accepted submission.
RunTransazioni ==
    \E premuto \in BOOLEAN :
        LET r == load_data(storage)
        IN IF r.err # "none" THEN Interrotta("Transazioni", r.err)
           ELSE /\ sezione' = "Transazioni"
                /\ vista' = VistaVuota
                /\ IF ~premuto
                   THEN /\ df' = r.df
                        /\ esito' = "ok"
                        /\ form' = NessunForm
                        /\ UNCHANGED storage
                   ELSE \E descrizione \in DescrizioniForm, importo \in ImportiForm :
                        /\ form' = [premuto |-> TRUE, descrizione |-> descrizione,
                                    importo |-> importo]
                        /\ IF Valido(descrizione, importo)
                           THEN \E tipo \in Tipi, portafoglio \in PortafogliForm,
                                   categoria \in CategorieForm, data \in DateForm :
                                /\ Len(r.df) < MaxRows
                                /\ df' = Append(r.df, Riga(data, portafoglio, tipo, categoria,
                                                           Str(descrizione), importo))
                                /\ storage' = save_data(df')
                                /\ esito' = "success"
                           ELSE /\ df' = r.df
                                /\ esito' = "warning"
                                /\ UNCHANGED storage

\* Lines 222-294.
RunAnalisi ==
    \E ora \in Ore :
        LET r == load_data(storage)
        IN IF r.err # "none" THEN Interrotta("Analisi", r.err)
           ELSE /\ df' = r.df
                /\ sezione' = "Analisi"
                /\ form' = NessunForm
                /\ UNCHANGED storage
                /\ IF r.df = DataFrameVuoto
                   THEN esito' = "info" /\ vista' = VistaVuota
                   ELSE \E mese_scelto \in mesi_disponibili(r.df) :
                        /\ esito' = "ok"
                        /\ vista' =
                             [tipo |-> "Analisi",
                              ora |-> ora,
                              mensile |-> mensile(r.df),
                              portafogli_mensili |-> portafogli_mensili(r.df),
                              mese_scelto |-> mese_scelto,
                              spese_categoria |-> spese_categoria(r.df, mese_scelto),
                              torta2 |-> StipendioVsSpese(
                                            entrate_stipendio(r.df, mese_scelto),
                                            spese_totali_mese(r.df, mese_scelto)),
                              pdf |-> genera_report_pdf(r.df, ora.mese, ora.anno)]

Avvio ==
    /\ df = DataFrameVuoto
    /\ sezione = "avvio"
    /\ esito = "none"
    /\ form = NessunForm
    /\ vista = VistaVuota

\* The program, started on any file.
Init ==
    /\ storage \in {Assente, Illeggibile}
                     \cup {Records(r) : r \in SeqsUpTo(RigheFile, MaxRows)}
    /\ Avvio

Next == RunDashboard \/ RunTransazioni \/ RunAnalisi

Spec == Init /\ [][Next]_vars

\* The read-only sections over tables of several wallets.
InitPortafogli ==
    /\ storage \in {Assente} \cup {Records(r) : r \in SeqsUpTo(RighePortafogli, MaxRows)}
    /\ Avvio

\* The read-only sections over tables of several categories.
InitCategorie ==
    /\ storage \in {Assente} \cup {Records(r) : r \in SeqsUpTo(RigheCategorie, MaxRows)}
    /\ Avvio

\* The read-only sections never write the file, so a second run over the
\* same file computes what the first did: one run per table.
Dashboard == sezione = "avvio" /\ RunDashboard

Analisi == sezione = "avvio" /\ RunAnalisi

NextLettura == Dashboard \/ Analisi

SpecPortafogli == InitPortafogli /\ [][NextLettura]_vars

SpecCategorie == InitCategorie /\ [][NextLettura]_vars

(***************************************************************************)
(* Quantities the properties are stated with, computed from the rows of a  *)
(* table one by one rather than by the pandas pipeline.                    *)
(***************************************************************************)
RECURSIVE SommaIdx(_, _)
SommaIdx(tab, I) ==
    IF I = {} THEN 0
    ELSE LET i == CHOOSE x \in I : TRUE
         IN tab[i].Importo + SommaIdx(tab, I \ {i})

\* The rows dated in the calendar month of m.
NelMese(tab, m) ==
    {i \in DOMAIN tab : /\ tab[i].Data # NaT
                        /\ tab[i].Data.anno = m.anno
                        /\ tab[i].Data.mese = m.mese}

DiTipo(tab, t) == {i \in DOMAIN tab : tab[i].Tipo = t}

\* C1: a submission with an empty description or an amount <= 0 leaves the
\* file and the table (as loaded by that run) as they were, and shows the
\* warning.
C1_RifiutoSenzaEffetti ==
    [][ ( /\ sezione' = "Transazioni"
          /\ form'.premuto
          /\ (form'.descrizione = "" \/ form'.importo <= 0) )
        => ( /\ storage' = storage
             /\ df' = load_data(storage).df
             /\ esito' = "warning" ) ]_vars

C1_Witness ==
    /\ sezione = "Transazioni"
    /\ form.premuto
    /\ form.descrizione # ""
    /\ form.importo = 0
    /\ esito = "warning"
    /\ df # <<>>
    /\ storage = save_data(df)

\* C2: the store is append-only: whenever the file holds transactions, a
\* step leaves each of them unchanged and in place, any new one after them.
C2_AppendOnly ==
    [][ ( /\ storage.kind = "records"
          /\ \A i \in DOMAIN storage.rows : storage.rows[i].Data.k = "iso" )
        => ( /\ storage'.kind = "records"
             /\ Len(storage'.rows) >= Len(storage.rows)
             /\ SubSeq(storage'.rows, 1, Len(storage.rows)) = storage.rows ) ]_vars

\* A valid transaction set: every row with a date, a non-empty text
\* description and a positive amount.
TabellaValida(tab) ==
    \A i \in DOMAIN tab : /\ tab[i].Data # NaT
                          /\ tab[i].Descrizione.t = "str"
                          /\ tab[i].Descrizione.v # ""
                          /\ tab[i].Importo > 0

\* C3: round trip: when a valid table has just been saved, loading the file
\* yields that table.
C3_RoundTrip ==
    (esito = "success" /\ TabellaValida(df))
        => load_data(storage) = [err |-> "none", df |-> df]

\* C4: load never surfaces an error: no run ends with an exception of
\* load_data, whatever the file holds.
C4_LoadNeverRaises == esito # "KeyError"

\* C5: the loaded table holds no row whose date did not parse.
C5_NoUnparsedDate == \A i \in DOMAIN df : df[i].Data # NaT

RECURSIVE SommaRisparmi(_)
SommaRisparmi(righe) ==
    IF righe = <<>> THEN 0 ELSE Head(righe).Risparmio + SommaRisparmi(Tail(righe))

\* C6: the monthly savings add up to the total savings of the table, and so
\* does the last cumulative value (stated for the tables that have a month).
C6_Reconciles ==
    (vista.tipo = "Analisi" /\ vista.mensile # <<>>)
        => /\ SommaRisparmi(vista.mensile) = risparmio_totale(df)
           /\ vista.mensile[Len(vista.mensile)].RisparmioCumulativo = risparmio_totale(df)

\* Income minus expense of wallet p over the months up to and including m.
SaldoFirmato(tab, p, m) ==
    LET finora == {i \in DOMAIN tab : /\ tab[i].Data # NaT
                                      /\ tab[i].Portafoglio = p
                                      /\ Ord(AnnoMese(tab[i].Data)) <= Ord(m)}
    IN SommaIdx(tab, finora \cap DiTipo(tab, "Entrata"))
         - SommaIdx(tab, finora \cap DiTipo(tab, "Uscita"))

\* C7: the wallet series is, per wallet and month, the cumulative sum of the
\* signed amounts (Entrata positive, Uscita negative).
C7_SaldiFirmati ==
    vista.tipo = "Analisi"
        => \A i \in DOMAIN vista.portafogli_mensili, p \in Range(PORTAFOGLI) :
              vista.portafogli_mensili[i].saldo[p]
                = SaldoFirmato(df, p, vista.portafogli_mensili[i].AnnoMese)

\* b is the category breakdown of month m: one entry per category with an
\* Uscita in m, its amount the sum of exactly those, amounts descending.
BreakdownCorretto(b, tab, m) ==
    LET spese == NelMese(tab, m) \cap DiTipo(tab, "Uscita")
        cats == {tab[i].Categoria : i \in spese}
    IN /\ {b[j].Categoria : j \in DOMAIN b} = cats
       /\ Len(b) = Cardinality(cats)
       /\ \A j \in DOMAIN b :
            b[j].Importo = SommaIdx(tab, {i \in spese : tab[i].Categoria = b[j].Categoria})
       /\ \A j \in 1..(Len(b) - 1) : b[j].Importo >= b[j + 1].Importo

\* C8: the category breakdown of a month, at both places that compute it
\* (the Analisi pie and the PDF report).
C8_Breakdown ==
    vista.tipo = "Analisi"
        => /\ BreakdownCorretto(vista.spese_categoria, df, vista.mese_scelto)
           /\ vista.pdf.doc
                => BreakdownCorretto(vista.pdf.spese_categoria, df, vista.ora)

C8_Witness ==
    /\ vista.tipo = "Analisi"
    /\ Len(vista.spese_categoria) = 2
    /\ vista.spese_categoria[1].Categoria = "Bollette"
    /\ vista.spese_categoria[2].Categoria = "Affitto"
    /\ vista.spese_categoria[1].Importo > vista.spese_categoria[2].Importo

\* t is the salary-versus-expense split of month m: present exactly when the
\* month has Stipendio income, and then its remainder is
\* max(stipendio - spese, 0).
RimanenteCorretto(t, tab, m) ==
    LET mese == NelMese(tab, m)
        stip == SommaIdx(tab, {i \in mese \cap DiTipo(tab, "Entrata") :
                                  tab[i].Categoria = "Stipendio"})
        spese == SommaIdx(tab, mese \cap DiTipo(tab, "Uscita"))
    IN /\ t.presente = (stip > 0)
       /\ t.presente => /\ t.rimanente >= 0
                        /\ stip >= spese => t.rimanente = stip - spese
                        /\ stip < spese => t.rimanente = 0

\* C9: the remainder is max(Stipendio income - expenses, 0), never negative,
\* at both places that compute it.
C9_Rimanente ==
    vista.tipo = "Analisi"
        => /\ RimanenteCorretto(vista.torta2, df, vista.mese_scelto)
           /\ vista.pdf.doc => RimanenteCorretto(vista.pdf.torta2, df, vista.ora)

C9_Witness ==
    /\ vista.tipo = "Analisi"
    /\ vista.torta2.presente
    /\ vista.torta2.spese > vista.torta2.stipendio
    /\ vista.torta2.rimanente = 0

\* C10: the report is "no data" exactly when no row is dated in the target
\* month and year, and a document otherwise; with an empty table the Analisi
\* section produces no document.
C10_NoData ==
    sezione = "Analisi" /\ esito # "KeyError"
        => IF df = <<>>
           THEN esito = "info" /\ vista = VistaVuota
           ELSE /\ esito = "ok"
                /\ NelMese(df, vista.ora) = {} => vista.pdf = Nessuno
                /\ NelMese(df, vista.ora) # {}
                     => /\ vista.pdf.doc
                        /\ DOMAIN vista.pdf = {"doc", "saldi", "totale_entrate", "totale_spese",
                                               "risparmio_mese", "spese_categoria", "torta2"}

C10_Witness ==
    /\ sezione = "Analisi"
    /\ esito = "ok"
    /\ vista.pdf = Nessuno
    /\ \E i \in DOMAIN df : df[i].Data # NaT /\ df[i].Data.mese = vista.ora.mese

====
